---- MODULE Spec2Model ----
(***************************************************************************)
(* Model of cw-token's module-synthetic (Osmosis token factory) denom:     *)
(* src/src/implementations/osmosis.rs.                                     *)
(*                                                                         *)
(* A Rust String is a sequence of one-character strings.  A value of type  *)
(* Option<T> is a sequence of length 0 (None) or 1 (Some).  A Response is  *)
(* the sequence of SubMsg it carries; StdResult is a record with an `ok`   *)
(* flag.                                                                   *)
(***************************************************************************)
EXTENDS Integers, Sequences, FiniteSets, TLC

VARIABLES
    asset,      \* Option<AssetInfo>: the generic asset identity in hand
    origin,     \* Option<[denom, checked]>: the OsmosisDenom `asset` was made from
    token,      \* Option<String>: the OsmosisDenom in hand (its field .0)
    checked,    \* TRUE iff `token` was produced by OsmosisDenom::try_from
    admin,      \* Option<Addr>: the admin recorded by set_admin_addr
    storage,    \* Option<T>: content of the Item<T> handed to save_asset
    creation,   \* history: "NoPendingCreation", "CreationRequested" once instantiate
                \* has returned its messages, "Finalized" once save_asset has completed
    response    \* the last call: its name, arguments and result

vars == <<asset, origin, token, checked, admin, storage, creation, response>>

----------------------------------------------------------------------------
(* Bounds of the model *)

\* Longest input denom, counted in chunks of DenomChunks.
MaxChunks == 6

\* Largest Uint128 amount passed to an operation (two decimal digits).
MaxAmount == 11

\* Longest list of events in a reply.
MaxEvents == 2

----------------------------------------------------------------------------
(* Strings *)

RECURSIVE Concat(_)
\* The concatenation of a sequence of strings.
Concat(ss) == IF ss = <<>> THEN <<>> ELSE Head(ss) \o Concat(Tail(ss))

\* All sequences over S of length at most n.
SeqsUpTo(S, n) == UNION {[1..k -> S] : k \in 0..n}

FACTORY == <<"f", "a", "c", "t", "o", "r", "y">>
SLASH == <<"/">>

\* The pieces input denoms are built from.
DenomChunks == {FACTORY, SLASH, <<"a">>}

\* Input denom strings: "", "factory/a/a", "factory///", "a/a/a", "factorya//", ...
Denoms == {Concat(cs) : cs \in SeqsUpTo(DenomChunks, MaxChunks)}

Addrs == {"alice", "bob"}
Amounts == 0..MaxAmount

RECURSIVE Split(_, _)
\* str::split(sep): the segments between separators, empty segments kept;
\* the empty string yields one empty segment.
Split(s, sep) ==
    IF \A i \in 1..Len(s) : s[i] # sep
    THEN <<s>>
    ELSE LET i == CHOOSE k \in 1..Len(s) :
                      s[k] = sep /\ \A j \in 1..(k - 1) : s[j] # sep
         IN <<SubSeq(s, 1, i - 1)>> \o Split(SubSeq(s, i + 1, Len(s)), sep)

Digit(d) == <<"0", "1", "2", "3", "4", "5", "6", "7", "8", "9">>[d + 1]

RECURSIVE to_string(_)
\* Uint128::to_string: the decimal digits, most significant first.
to_string(n) == IF n < 10 THEN <<Digit(n)>> ELSE to_string(n \div 10) \o <<Digit(n % 10)>>

----------------------------------------------------------------------------
(* Results *)

Ok(v) == [ok |-> TRUE, value |-> v, err |-> <<>>]
Err(msg) == [ok |-> FALSE, value |-> <<>>, err |-> <<"generic_err", msg>>]
\* todo!(): the call panics, the invocation aborts and nothing is returned.
Panic == [ok |-> FALSE, value |-> <<>>, err |-> <<"panic", "not yet implemented">>]

----------------------------------------------------------------------------
(* AssetInfo and the conversions *)

Native(d) == [kind |-> "native", denom |-> d]
Cw20(a) == [kind |-> "cw20", addr |-> a]
Cw1155(a, id) == [kind |-> "cw1155", addr |-> a, id |-> id]

AssetInfos ==
    {Native(d) : d \in Denoms} \cup {Cw20(a) : a \in Addrs}
        \cup {Cw1155(a, "1") : a \in Addrs}

\* Faulty variant of From: keeps only the subdenom, the last segment.
From_subdenom(denom) ==
    LET parts == Split(denom, "/") IN [kind |-> "native", denom |-> parts[Len(parts)]]

\* impl From<OsmosisDenom> for AssetInfo
From(denom) == Native(denom)

\* Faulty variant of try_from: tests parts.len() < 3 where the code tests parts.len() != 3.
try_from_at_least_3(asset_info) ==
    CASE asset_info.kind = "cw20" ->
            Err("Cannot convert Cw20 asset to OsmosisDenom.")
      [] asset_info.kind = "native" ->
            LET parts == Split(asset_info.denom, "/")
            IN IF Len(parts) < 3 \/ parts[1] # FACTORY
               THEN Err("Invalid denom for OsmosisDenom.")
               ELSE Ok(asset_info.denom)
      [] asset_info.kind = "cw1155" ->
            Err("Cannot convert Cw1155 asset to OsmosisDenom.")

\* impl TryFrom<AssetInfo> for OsmosisDenom
try_from(asset_info) ==
    CASE asset_info.kind = "cw20" ->
            Err("Cannot convert Cw20 asset to OsmosisDenom.")
      [] asset_info.kind = "native" ->
            LET parts == Split(asset_info.denom, "/")
            IN IF Len(parts) # 3 \/ parts[1] # FACTORY
               THEN Err("Invalid denom for OsmosisDenom.")
               ELSE Ok(asset_info.denom)
      [] asset_info.kind = "cw1155" ->
            Err("Cannot convert Cw1155 asset to OsmosisDenom.")

\* impl TryFrom<&AssetInfo> for OsmosisDenom
try_from_ref(asset_info) == try_from(asset_info)

Call(name, args, result) == [call |-> name, args |-> args, result |-> result]

NoCall == Call("none", <<>>, Ok(<<>>))

\* OsmosisDenom::try_from(asset)
TryFromAsset ==
    /\ asset # <<>>
    /\ LET r == try_from(asset[1])
       IN /\ response' = Call("try_from", [asset_info |-> asset[1]], r)
          /\ token' = IF r.ok THEN <<r.value>> ELSE token
          /\ checked' = IF r.ok THEN TRUE ELSE checked
    /\ UNCHANGED <<asset, origin, admin, storage, creation>>

\* OsmosisDenom::try_from(&asset)
TryFromAssetRef ==
    /\ asset # <<>>
    /\ LET r == try_from_ref(asset[1])
       IN /\ response' = Call("try_from", [asset_info |-> asset[1]], r)
          /\ token' = IF r.ok THEN <<r.value>> ELSE token
          /\ checked' = IF r.ok THEN TRUE ELSE checked
    /\ UNCHANGED <<asset, origin, admin, storage, creation>>

\* OsmosisDenom(denom): the tuple struct's field is public, so a value can be
\* built from any string without validation.
Construct ==
    /\ asset # <<>>
    /\ asset[1].kind = "native"
    /\ token' = <<asset[1].denom>>
    /\ checked' = FALSE
    /\ response' = Call("OsmosisDenom", [denom |-> asset[1].denom], Ok(asset[1].denom))
    /\ UNCHANGED <<asset, origin, admin, storage, creation>>

\* AssetInfo::from(token)
FromDenom ==
    /\ token # <<>>
    /\ asset' = <<From(token[1])>>
    /\ origin' = <<[denom |-> token[1], checked |-> checked]>>
    /\ response' = Call("from", [denom |-> token[1]], Ok(From(token[1])))
    /\ UNCHANGED <<token, checked, admin, storage, creation>>

InitConv ==
    /\ asset \in {<<a>> : a \in AssetInfos}
    /\ origin = <<>>
    /\ token = <<>>
    /\ checked = FALSE
    /\ admin = <<>>
    /\ storage = <<>>
    /\ creation = "NoPendingCreation"
    /\ response = NoCall

NextConv == TryFromAsset \/ TryFromAssetRef \/ Construct \/ FromDenom

\* The conversions applied, in any order, to every input asset identity.
SpecConv == InitConv /\ [][NextConv]_vars

----------------------------------------------------------------------------
(* Messages *)

\* cosmwasm_std::SubMsg::new, which Response::add_message(s) wraps each message in:
\* no reply is requested and the id is 0.
SubMsgNew(msg) == [id |-> 0, msg |-> msg, reply_on |-> "never"]

Coin(denom, amount) == [denom |-> denom, amount |-> amount]
BankSend(to_address, amount) ==
    [kind |-> "bank_send", to_address |-> to_address, amount |-> amount]
Stargate(type_url, value) == [kind |-> "stargate", type_url |-> type_url, value |-> value]

\* OsmosisTypeURLs::Mint / ::Burn .to_string()
MintTypeUrl == "/osmosis.tokenfactory.v1beta1.MsgMint"
BurnTypeUrl == "/osmosis.tokenfactory.v1beta1.MsgBurn"

\* apollo_proto_rust::utils::encode: the protobuf bytes of a message, which
\* determine the message.
encode(m) == [proto |-> m]

MsgMint(amount, sender) == [amount |-> amount, sender |-> sender]
MsgBurn(amount, sender) == [amount |-> amount, sender |-> sender]

----------------------------------------------------------------------------
(* The capabilities of OsmosisDenom; self is the field .0 *)

\* Faulty variant of transfer: rejects a zero amount.
transfer_rejects_zero(self, to, amount) ==
    IF amount = 0
    THEN Err("InvalidAmount")
    ELSE Ok(<<SubMsgNew(BankSend(to, <<Coin(self, amount)>>))>>)

\* impl Token for OsmosisDenom: transfer
transfer(self, to, amount) ==
    Ok(<<SubMsgNew(BankSend(to, <<Coin(self, amount)>>))>>)

\* Faulty variant of mint: the forwarding send comes before the module mint.
mint_send_first(self, sender, recipient, amount) ==
    Ok(<<SubMsgNew(BankSend(recipient, <<Coin(self, amount)>>)),
         SubMsgNew(Stargate(MintTypeUrl,
                            encode(MsgMint(<<Coin(self, to_string(amount))>>, sender))))>>)

\* impl Mint for OsmosisDenom: mint
mint(self, sender, recipient, amount) ==
    Ok(<<SubMsgNew(Stargate(MintTypeUrl,
                            encode(MsgMint(<<Coin(self, to_string(amount))>>, sender)))),
         SubMsgNew(BankSend(recipient, <<Coin(self, amount)>>))>>)

\* Faulty variant of burn: a copy of mint's first message, with the mint type URL kept.
burn_with_mint_url(self, sender, amount) ==
    Ok(<<SubMsgNew(Stargate(MintTypeUrl,
                            encode(MsgBurn(<<Coin(self, to_string(amount))>>, sender))))>>)

\* impl Burn for OsmosisDenom: burn
burn(self, sender, amount) ==
    Ok(<<SubMsgNew(Stargate(BurnTypeUrl,
                            encode(MsgBurn(<<Coin(self, to_string(amount))>>, sender))))>>)

REPLY_SAVE_OSMOSIS_DENOM == 14508

\* OsmosisDenomInfo, and a payload that does not deserialize into it.
Malformed == [malformed |-> TRUE]
InitInfos == {Malformed} \cup {[denom |-> <<"a">>, sender |-> s] : s \in Addrs}

\* impl Instantiate for OsmosisDenom: instantiate.  The body names `sender`,
\* `recipient`, `amount` and `init_info.amount`, which nothing in scope defines:
\* they are parameters here and the caller draws them from every value.
instantiate(self, init_info, init_amount, sender, recipient, amount) ==
    IF init_info = Malformed
    THEN Err("deserialize")
    ELSE Ok(<<SubMsgNew(Stargate(MintTypeUrl,
                                 encode(MsgMint(<<Coin(self, init_amount)>>, sender)))),
              SubMsgNew(BankSend(recipient, <<Coin(self, amount)>>))>>)

\* events.iter().find(|event| event.ty == "create_denom"): the position of the
\* first such event, 0 when there is none.
find_event(events) ==
    IF \E i \in 1..Len(events) : events[i].ty = "create_denom"
    THEN CHOOSE i \in 1..Len(events) :
            /\ events[i].ty = "create_denom"
            /\ \A j \in 1..(i - 1) : events[j].ty # "create_denom"
    ELSE 0

\* attributes.iter().find(|attr| attr.key == "new_token_denom"): the position of
\* the first such attribute, 0 when there is none.
find_attr(attributes) ==
    IF \E i \in 1..Len(attributes) : attributes[i].key = "new_token_denom"
    THEN CHOOSE i \in 1..Len(attributes) :
            /\ attributes[i].key = "new_token_denom"
            /\ \A j \in 1..(i - 1) : attributes[j].key # "new_token_denom"
    ELSE 0

\* fn parse_osmosis_denom_from_instantiate_event(response: SubMsgResponse).
\* The error texts are the code's, less the backquotes around the names.
parse_osmosis_denom_from_instantiate_event(resp) ==
    LET e == find_event(resp.events)
    IN IF e = 0
       THEN Err("cannot find create_denom event")
       ELSE LET a == find_attr(resp.events[e].attributes)
            IN IF a = 0
               THEN Err("cannot find new_token_denom attribute")
               ELSE Ok(resp.events[e].attributes[a].value)

\* Instantiate::save_asset: todo!()
save_asset(reply) == Panic

\* Instantiate::set_admin_addr: todo!()
set_admin_addr(addr) == Panic

----------------------------------------------------------------------------
(* Replies the environment can deliver *)

NewDenom == Concat(<<FACTORY, SLASH, <<"a">>, SLASH, <<"a">>>>)

Attr(k, v) == [key |-> k, value |-> v]
Event(ty, attributes) == [ty |-> ty, attributes |-> attributes]

Events ==
    { Event("create_denom", <<Attr("new_token_denom", NewDenom)>>),
      Event("create_denom", <<Attr("amount", <<"1">>)>>),
      Event("create_denom", <<>>),
      Event("wasm", <<Attr("new_token_denom", NewDenom)>>) }

ReplyIds == {REPLY_SAVE_OSMOSIS_DENOM, 1}

Replies ==
    {[id |-> i, result |-> Err("submessage failed")] : i \in ReplyIds}
        \cup {[id |-> i, result |-> Ok([events |-> es])] :
                 i \in ReplyIds, es \in SeqsUpTo(Events, MaxEvents)}

----------------------------------------------------------------------------
(* One action per call on the token in hand *)

Transfer ==
    /\ token # <<>>
    /\ \E to \in Addrs, amount \in Amounts :
          response' = Call("transfer", [to |-> to, amount |-> amount],
                           transfer(token[1], to, amount))
    /\ UNCHANGED <<asset, origin, token, checked, admin, storage, creation>>

Mint ==
    /\ token # <<>>
    /\ \E sender \in Addrs, recipient \in Addrs, amount \in Amounts :
          response' = Call("mint",
                           [sender |-> sender, recipient |-> recipient, amount |-> amount],
                           mint(token[1], sender, recipient, amount))
    /\ UNCHANGED <<asset, origin, token, checked, admin, storage, creation>>

Burn ==
    /\ token # <<>>
    /\ \E sender \in Addrs, amount \in Amounts :
          response' = Call("burn", [sender |-> sender, amount |-> amount],
                           burn(token[1], sender, amount))
    /\ UNCHANGED <<asset, origin, token, checked, admin, storage, creation>>

Instantiate ==
    /\ token # <<>>
    /\ \E init_info \in InitInfos, init_amount \in {to_string(n) : n \in Amounts},
          sender \in Addrs, recipient \in Addrs, amount \in Amounts :
          LET r == instantiate(token[1], init_info, init_amount, sender, recipient, amount)
          IN /\ response' = Call("instantiate", [init_info |-> init_info], r)
             /\ creation' = IF r.ok /\ creation = "NoPendingCreation"
                            THEN "CreationRequested"
                            ELSE creation
    /\ UNCHANGED <<asset, origin, token, checked, admin, storage>>

\* The reply entry point of the calling contract hands every reply to save_asset.
SaveAsset ==
    /\ \E reply \in Replies :
          response' = Call("save_asset", [reply |-> reply], save_asset(reply))
    /\ UNCHANGED <<asset, origin, token, checked, admin, storage, creation>>

SetAdminAddr ==
    /\ token # <<>>
    /\ \E addr \in Addrs :
          response' = Call("set_admin_addr", [addr |-> addr], set_admin_addr(addr))
    /\ UNCHANGED <<asset, origin, token, checked, admin, storage, creation>>

\* The tokens the calling contract can hold: one obtained through try_from and
\* one built directly from a native denom.
Init ==
    /\ asset = <<>>
    /\ origin = <<>>
    /\ \E c \in BOOLEAN :
          /\ checked = c
          /\ token = IF c THEN <<NewDenom>> ELSE <<<<"a">>>>
    /\ admin = <<>>
    /\ storage = <<>>
    /\ creation = "NoPendingCreation"
    /\ response = NoCall

Next == Transfer \/ Mint \/ Burn \/ Instantiate \/ SaveAsset \/ SetAdminAddr

Spec == Init /\ [][Next]_vars

----------------------------------------------------------------------------
(* Properties *)

\* The number of occurrences of c in s.
Count(s, c) == Cardinality({i \in 1..Len(s) : s[i] = c})

\* A native denom of the shape factory/<creator>/<subdenom>: it starts with
\* "factory/" and holds exactly two '/'.
IsFactoryDenom(a) ==
    /\ a.kind = "native"
    /\ Count(a.denom, "/") = 2
    /\ Len(a.denom) >= Len(FACTORY) + 1
    /\ SubSeq(a.denom, 1, Len(FACTORY) + 1) = FACTORY \o SLASH

RECURSIVE DecimalValue(_)
\* The number a string of decimal digits denotes.
DecimalValue(s) ==
    IF s = <<>> THEN 0
    ELSE 10 * DecimalValue(SubSeq(s, 1, Len(s) - 1))
            + (CHOOSE d \in 0..9 : Digit(d) = s[Len(s)])

Msgs == response.result.value

\* C1: OsmosisDenom::try_from succeeds, with the denom unchanged, exactly on the
\* native denoms that split on '/' into 3 segments the first of which is
\* "factory"; on every other asset identity it fails with an error.
C1_TryFromIffFactoryDenom ==
    response.call = "try_from" =>
        LET a == response.args.asset_info
        IN /\ response.result.ok <=> IsFactoryDenom(a)
           /\ response.result.ok => response.result.value = a.denom
           /\ ~response.result.ok => response.result.err[1] = "generic_err"

\* C1 witness: the 4-segment denom "factory///" has been refused.
C1_Witness ==
    /\ response.call = "try_from"
    /\ response.args.asset_info = Native(Concat(<<FACTORY, SLASH, SLASH, SLASH>>))
    /\ ~response.result.ok

\* C2: mint returns exactly two messages: the token factory mint of `amount` of
\* the token's denom by `sender`, then the bank send of `amount` of the same
\* denom to `recipient`.
C2_MintThenSend ==
    response.call = "mint" =>
        /\ response.result.ok
        /\ Len(Msgs) = 2
        /\ Msgs[1].msg.kind = "stargate"
        /\ Msgs[1].msg.type_url = MintTypeUrl
        /\ Len(Msgs[1].msg.value.proto.amount) = 1
        /\ Msgs[1].msg.value.proto.amount[1].denom = token[1]
        /\ DecimalValue(Msgs[1].msg.value.proto.amount[1].amount) = response.args.amount
        /\ Msgs[1].msg.value.proto.sender = response.args.sender
        /\ Msgs[2].msg.kind = "bank_send"
        /\ Msgs[2].msg.to_address = response.args.recipient
        /\ Msgs[2].msg.amount = <<[denom |-> token[1], amount |-> response.args.amount]>>

\* C2 witness: a mint of a non-zero amount to another address has returned.
C2_Witness ==
    /\ response.call = "mint"
    /\ response.args.amount = MaxAmount
    /\ response.args.sender # response.args.recipient
    /\ Len(Msgs) = 2

\* C3 as stated: a mint or burn whose sender is not the recorded admin fails
\* and returns no message.
C3_NonAdminRefused ==
    (response.call \in {"mint", "burn"} /\ admin # <<response.args.sender>>) =>
        /\ ~response.result.ok
        /\ response.result.err = <<"generic_err", "Unauthorized">>

\* C4 as stated: once a creation has been requested, a successful reply with
\* the reserved id and a create_denom event carrying new_token_denom = d is
\* answered with the follow-up messages, the metadata is stored and the
\* creation is Finalized.
C4_GoodReplyFinalizes ==
    LET reply == response.args.reply
    IN (/\ response.call = "save_asset"
        /\ creation # "NoPendingCreation"
        /\ reply.id = REPLY_SAVE_OSMOSIS_DENOM
        /\ reply.result.ok
        /\ \E i \in 1..Len(reply.result.value.events) :
              /\ reply.result.value.events[i].ty = "create_denom"
              /\ \E j \in 1..Len(reply.result.value.events[i].attributes) :
                    reply.result.value.events[i].attributes[j]
                        = [key |-> "new_token_denom", value |-> NewDenom])
       => /\ response.result.ok
          /\ storage # <<>>
          /\ creation = "Finalized"

\* C5 as stated: a successful reply with the reserved id from which no denom
\* can be parsed is answered with the parse error.
C5_BadReplyIsProtocolViolation ==
    LET reply == response.args.reply
    IN (/\ response.call = "save_asset"
        /\ reply.id = REPLY_SAVE_OSMOSIS_DENOM
        /\ reply.result.ok
        /\ ~parse_osmosis_denom_from_instantiate_event(reply.result.value).ok)
       => /\ response.result = parse_osmosis_denom_from_instantiate_event(reply.result.value)
          /\ storage = <<>>

\* C6 as stated: a successful instantiate returns a message that asks for a
\* reply under the reserved id.
C6_InstantiateRegistersReply ==
    (response.call = "instantiate" /\ response.result.ok) =>
        \E i \in 1..Len(Msgs) :
            /\ Msgs[i].id = REPLY_SAVE_OSMOSIS_DENOM
            /\ Msgs[i].reply_on # "never"

\* C7 as stated: a reply with another id is answered without error and without
\* messages.
C7_OtherIdIgnored ==
    (response.call = "save_asset" /\ response.args.reply.id # REPLY_SAVE_OSMOSIS_DENOM) =>
        /\ response.result.ok
        /\ response.result.value = <<>>
        /\ storage = <<>>

\* C8: an OsmosisDenom obtained from try_from, converted with AssetInfo::from
\* and back with try_from, comes back equal.
C8_RoundTrip ==
    (response.call = "try_from" /\ origin # <<>> /\ origin[1].checked) =>
        /\ response.args.asset_info = asset[1]
        /\ response.result.ok
        /\ response.result.value = origin[1].denom

\* C8 witness: a checked denom has gone through from and try_from.
C8_Witness ==
    /\ response.call = "try_from"
    /\ origin # <<>>
    /\ origin[1].checked
    /\ response.result.ok

\* C9: burn returns exactly one message: the token factory burn of `amount` of
\* the token's denom by `sender`.
C9_BurnOneOp ==
    response.call = "burn" =>
        /\ response.result.ok
        /\ Len(Msgs) = 1
        /\ Msgs[1].msg.kind = "stargate"
        /\ Msgs[1].msg.type_url = BurnTypeUrl
        /\ Len(Msgs[1].msg.value.proto.amount) = 1
        /\ Msgs[1].msg.value.proto.amount[1].denom = token[1]
        /\ DecimalValue(Msgs[1].msg.value.proto.amount[1].amount) = response.args.amount
        /\ Msgs[1].msg.value.proto.sender = response.args.sender

\* C9 witness: a burn of a non-zero amount has returned its message.
C9_Witness ==
    /\ response.call = "burn"
    /\ response.args.amount = MaxAmount
    /\ Len(Msgs) = 1

\* C10 as stated: a transfer of a zero amount fails.
C10_ZeroTransferFails ==
    (response.call = "transfer" /\ response.args.amount = 0) => ~response.result.ok

\* C10 amended: every transfer, of a zero amount too, succeeds with exactly one
\* bank send of `amount` of the token's denom to `to`, and changes nothing of
\* the token, the admin, the storage or the creation.
C10_TransferOneSend ==
    [][response'.call = "transfer" =>
          /\ response'.result.ok
          /\ response'.result.value
                = <<[id |-> 0, reply_on |-> "never",
                     msg |-> [kind |-> "bank_send",
                              to_address |-> response'.args.to,
                              amount |-> <<[denom |-> token[1],
                                            amount |-> response'.args.amount]>>]]>>
          /\ UNCHANGED <<token, checked, admin, storage, creation>>]_vars

\* C10 witness: a transfer of a zero amount has returned one bank send.
C10_Witness ==
    /\ response.call = "transfer"
    /\ response.args.amount = 0
    /\ response.result.ok
    /\ Len(Msgs) = 1

====
